---- MODULE Spec2Model ----
(***************************************************************************)
(* Model of radiomics/imageoperations.py: the crop / resample geometry     *)
(* (cropToTumorMask, resampleImage), the angle enumeration                 *)
(* (generateAngles) and the 3D stationary wavelet decomposition (swt3 and  *)
(* its three per-axis passes).                                             *)
(*                                                                         *)
(* Arrays are kept as numpy keeps them: a shape and the flat, row-major    *)
(* (C order) sequence of elements, so that reshape, resize, hstack, vstack,*)
(* dstack and transpose are the index arithmetic numpy performs.           *)
(* Spacings are whole numbers of a common unit and every quotient is kept  *)
(* as an exact fraction; the spacings used are powers of two, for which    *)
(* the float64 arithmetic of the code is exact as well.                    *)
(***************************************************************************)
EXTENDS Integers, Sequences, FiniteSets, TLC

VARIABLES
  imageNode,    \* geometry: the image (size, spacing, origin) or None
  maskNode,     \* geometry: the label mask (size, voxels) or None
  call,         \* geometry: the arguments of the call made, or None
  result,       \* geometry: what the call returned
  cachedBB,     \* geometry: the bounding box the caller kept from a first crop
  angleArgs,    \* generateAngles: (size, maxDistance), or None
  angles,       \* generateAngles: the returned array (its rows), or None
  inputImage,   \* swt3: the input image (array and spatial information)
  swtArgs,      \* swt3: wavelet, level, start_level
  pc,           \* swt3: position in the function
  data,         \* swt3: local `data`
  i,            \* swt3: loop counter of the two level loops
  bands,        \* swt3: locals H, L, HH, ..., LLL of the last level computed
  ret,          \* swt3: local `ret`, the list of recorded levels
  approximation \* swt3: the returned approximation image

vars == <<imageNode, maskNode, call, result, cachedBB, angleArgs, angles,
          inputImage, swtArgs, pc, data, i, bands, ret, approximation>>

geomVars == <<imageNode, maskNode, call, result, cachedBB>>
angleVars == <<angleArgs, angles>>
swtVars == <<inputImage, swtArgs, pc, data, i, bands, ret, approximation>>

\* Python's None, for the values that are objects, and for the two that are
\* tuples (a bounding box, a voxel index).
None == [none |-> TRUE]
NoBox == <<>>
NoVoxel == <<>>

\* ------------------------------------------------------------------ bounds

MaxSize == 3          \* largest image extent per axis in the geometry model
MaxPad == 2           \* largest padDistance tried
MaxDistance == 2      \* largest maxDistance tried for generateAngles
MaxAngleSize == 4     \* largest bounding-box extent tried for generateAngles
MaxDim == 4           \* largest array extent per axis in the wavelet model
MaxLevel == 2         \* largest `level` tried for swt3
MaxStartLevel == 1    \* largest `start_level` tried for swt3

\* ----------------------------------------------------------------- helpers

Axes == 1..3

FloorDiv(a, b) == a \div b           \* numpy.floor of the fraction a/b, b > 0
CeilDiv(a, b) == -((-a) \div b)      \* numpy.ceil of the fraction a/b, b > 0

MinOf(S) == CHOOSE x \in S : \A y \in S : x <= y
MaxOf(S) == CHOOSE x \in S : \A y \in S : x >= y
Abs(x) == IF x < 0 THEN -x ELSE x

\* ------------------------------------------------ the filtering engine used

\* Index triples of a volume of the given size (0-based, as ITK indexes).
Voxels(size) == (0..(size[1]-1)) \X (0..(size[2]-1)) \X (0..(size[3]-1))

LabelsIn(mask) == {mask.vox[v] : v \in DOMAIN mask.vox} \ {0}

RegionOf(mask, label) == {v \in DOMAIN mask.vox : mask.vox[v] = label}

\* sitk.LabelStatisticsImageFilter.GetBoundingBox(label):
\* (L_x, U_x, L_y, U_y, L_z, U_z), inclusive bounds.
LabelStatisticsBoundingBox(mask, label) ==
  LET R == RegionOf(mask, label)
      lo(a) == MinOf({v[a] : v \in R})
      hi(a) == MaxOf({v[a] : v \in R})
  IN  <<lo(1), hi(1), lo(2), hi(2), lo(3), hi(3)>>

\* sitk.LabelShapeStatisticsImageFilter.GetBoundingBox(label):
\* (L_X, L_Y, L_Z, S_X, S_Y, S_Z), lower bound and size.
LabelShapeBoundingBox(mask, label) ==
  LET R == RegionOf(mask, label)
      lo(a) == MinOf({v[a] : v \in R})
      hi(a) == MaxOf({v[a] : v \in R})
      sz(a) == hi(a) - lo(a) + 1
  IN  <<lo(1), lo(2), lo(3), sz(1), sz(2), sz(3)>>

\* Python slices of a 6-sequence.
EvenStride(bb) == <<bb[1], bb[3], bb[5]>>      \* bb[0::2]
OddStride(bb) == <<bb[2], bb[4], bb[6]>>       \* bb[1::2]
LastThree(bb) == <<bb[4], bb[5], bb[6]>>       \* bb[3:]

\* ---------------------------------------------------------- cropToTumorMask

DefaultLabel == 1

ijkMinBounds(boundingBox) == EvenStride(boundingBox)

\* Variant: the upper margin without the - 1.
ijkMaxBoundsOffByOne(size, boundingBox) ==
  LET ub == OddStride(boundingBox) IN [a \in Axes |-> size[a] - ub[a]]

ijkMaxBounds(size, boundingBox) ==
  LET ub == OddStride(boundingBox) IN [a \in Axes |-> size[a] - ub[a] - 1]

\* The whole function: the bounding box is computed when none is passed in,
\* the crop filter is given the two margins, and the box is returned.
cropToTumorMask(image, mask, label, boundingBox) ==
  LET size == mask.size
      bb == IF boundingBox = NoBox
              THEN LabelStatisticsBoundingBox(mask, label)
              ELSE boundingBox
      lower == ijkMinBounds(bb)
      upper == ijkMaxBounds(size, bb)
  IN  [kind |-> "crop",
       lowerCrop |-> lower,
       upperCrop |-> upper,
       croppedSize |-> [a \in Axes |-> size[a] - lower[a] - upper[a]],
       boundingBox |-> bb]

\* ------------------------------------------------------------ resampleImage

DefaultPadDistance == 5

\* Names the expression "sitk.<name>" evaluates to an interpolator for.
SitkInterpolators ==
  {"sitkNearestNeighbor", "sitkLinear", "sitkBSpline", "sitkGaussian"}

\* An interpolator argument is an enumerator of the engine or a string.
Enum(e) == [isString |-> FALSE, v |-> e]
Name(s) == [isString |-> TRUE, v |-> s]

\* Variant: an unknown name is an error, no kernel takes its place.
resolveInterpolatorNoFallback(interpolator) ==
  IF interpolator.isString /\ interpolator.v \notin SitkInterpolators
    THEN [interpolator |-> "", warned |-> FALSE, raised |-> TRUE]
    ELSE [interpolator |-> interpolator.v, warned |-> FALSE, raised |-> FALSE]

\* The try/except around eval: an unknown name is logged and replaced.
resolveInterpolator(interpolator) ==
  IF interpolator.isString
    THEN IF interpolator.v \in SitkInterpolators
           THEN [interpolator |-> interpolator.v, warned |-> FALSE,
                 raised |-> FALSE]
           ELSE [interpolator |-> "sitkBSpline", warned |-> TRUE,
                 raised |-> FALSE]
    ELSE [interpolator |-> interpolator.v, warned |-> FALSE, raised |-> FALSE]

\* Do not resample in those directions where the labelmap spans one slice.
adjustedSpacing(oldSize, resampledPixelSpacing, oldSpacing) ==
  [a \in Axes |-> IF oldSize[a] # 1 THEN resampledPixelSpacing[a]
                                    ELSE oldSpacing[a]]

\* floor((bb[:3] - 0.5) * spacingRatio - padDistance), spacingRatio = o / t
bbNewLBoundRaw(bb, o, t, padDistance) ==
  [a \in Axes |->
         FloorDiv((2 * bb[a] - 1) * o[a] - 2 * t[a] * padDistance, 2 * t[a])]

\* ceil((bb[:3] + bb[3:] - 0.5) * spacingRatio + padDistance)
bbNewUBoundRaw(bb, o, t, padDistance) ==
  [a \in Axes |->
         CeilDiv((2 * (bb[a] + bb[a + 3]) - 1) * o[a] + 2 * t[a] * padDistance,
                 2 * t[a])]

\* Variant: the clamp without the - 1.
maxUboundNoMinusOne(size, o, t) ==
  [a \in Axes |-> CeilDiv(size[a] * o[a], t[a])]

\* ceil(size * spacingRatio) - 1
maxUbound(size, o, t) ==
  [a \in Axes |-> CeilDiv(size[a] * o[a], t[a]) - 1]

clampLower(lb) == [a \in Axes |-> IF lb[a] < 0 THEN 0 ELSE lb[a]]
clampUpper(ub, mx) == [a \in Axes |-> IF ub[a] > mx[a] THEN mx[a] ELSE ub[a]]

\* The whole function.  Fractions: newCroppedOriginIndex[a] is
\* originIndexNum[a] / (2 * oldSpacing[a]); newOrigin2[a] is twice the
\* physical coordinate (axis-aligned direction).
resampleImage(image, mask, resampledPixelSpacing, interpolator, label, padDistance) ==
  IF image = None \/ mask = None THEN [kind |-> "none"]
  ELSE
  LET oldSpacing == image.spacing IN
  IF oldSpacing = resampledPixelSpacing
    THEN cropToTumorMask(image, mask, DefaultLabel, NoBox)
  ELSE
  LET bb == LabelShapeBoundingBox(mask, label)
      oldSize == LastThree(bb)
      t == adjustedSpacing(oldSize, resampledPixelSpacing, oldSpacing)
      lb == clampLower(bbNewLBoundRaw(bb, oldSpacing, t, padDistance))
      ub == clampUpper(bbNewUBoundRaw(bb, oldSpacing, t, padDistance),
                       maxUbound(image.size, oldSpacing, t))
      newSize == [a \in Axes |-> ub[a] - lb[a] + 1]
      originIndexNum == [a \in Axes |-> t[a] - oldSpacing[a] + 2 * lb[a] * t[a]]
      newOrigin2 == [a \in Axes |-> 2 * image.origin[a] + originIndexNum[a]]
      r == resolveInterpolator(interpolator)
  IN  IF r.raised
        THEN [kind |-> "error"]
        ELSE [kind |-> "resample",
              bb |-> bb,
              spacing |-> t,
              bbNewLBound |-> lb,
              bbNewUBound |-> ub,
              size |-> newSize,
              originIndexNum |-> originIndexNum,
              origin2 |-> newOrigin2,
              imageInterpolator |-> r.interpolator,
              maskInterpolator |-> "sitkNearestNeighbor",
              warned |-> r.warned]

\* --------------------------------------------------- geometry: the calls

\* Inclusive index boxes inside a volume of the given size.
Boxes(size) ==
  {b \in [lo : [Axes -> 0..(MaxSize - 1)], hi : [Axes -> 0..(MaxSize - 1)]] :
     \A a \in Axes : b.lo[a] <= b.hi[a] /\ b.hi[a] <= size[a] - 1}

InBox(v, b) == \A a \in Axes : b.lo[a] <= v[a] /\ v[a] <= b.hi[a]

\* A mask whose label 1 fills the box and whose label 2, when present, marks
\* one voxel.
MaskOf(size, box, p2) ==
  [size |-> size,
   vox |-> [v \in Voxels(size) |->
              IF v = p2 THEN 2 ELSE IF InBox(v, box) THEN 1 ELSE 0]]

FirstVoxel == <<0, 0, 0>>
LastVoxel(size) == <<size[1] - 1, size[2] - 1, size[3] - 1>>

ImageOf(size, spacing) ==
  [size |-> size, spacing |-> spacing, origin |-> <<0, 0, 0>>]

IdleAngles == angleArgs = None /\ angles = None

IdleSwt ==
  /\ inputImage = None /\ swtArgs = None /\ pc = "idle" /\ data = None
  /\ i = 0 /\ bands = None /\ ret = <<>> /\ approximation = None

IdleGeom ==
  /\ imageNode = None /\ maskNode = None /\ call = None /\ result = None
  /\ cachedBB = NoBox

CropSpacings == {<<1, 1, 1>>, <<1, 1, 2>>}

InitCrop ==
  /\ \E size \in [Axes -> 1..MaxSize], spacing \in CropSpacings :
       \E box \in Boxes(size), p2 \in {NoVoxel, FirstVoxel, LastVoxel(size)} :
          /\ imageNode = ImageOf(size, spacing)
          /\ maskNode = MaskOf(size, box, p2)
          /\ 1 \in LabelsIn(maskNode)
  /\ call = None /\ result = None /\ cachedBB = NoBox
  /\ IdleAngles /\ IdleSwt

OldSpacings == {<<1, 1, 1>>, <<2, 2, 4>>, <<4, 4, 1>>}
TargetSpacings == {<<1, 1, 1>>, <<2, 2, 2>>, <<4, 4, 4>>}

Interpolators ==
  {Enum("sitkBSpline"), Name("sitkLinear"), Name("linear")}

UnitSize == <<1, 1, 1>>
UnitBox == [lo |-> <<0, 0, 0>>, hi |-> <<0, 0, 0>>]

InitResample ==
  /\ \/ \E size \in [Axes -> 1..MaxSize], spacing \in OldSpacings :
          \E box \in Boxes(size) :
             /\ imageNode = ImageOf(size, spacing)
             /\ maskNode = MaskOf(size, box, NoVoxel)
     \/ /\ imageNode \in {None, ImageOf(UnitSize, <<1, 1, 1>>)}
        /\ maskNode \in {None, MaskOf(UnitSize, UnitBox, NoVoxel)}
        /\ imageNode = None \/ maskNode = None
  /\ call = None /\ result = None /\ cachedBB = NoBox
  /\ IdleAngles /\ IdleSwt

\* A first call of cropToTumorMask: no bounding box is passed; the caller
\* keeps the one returned.
CropFirst(label) ==
  /\ call = None
  /\ imageNode # None /\ maskNode # None
  /\ label \in LabelsIn(maskNode)
  /\ call' = [op |-> "crop", label |-> label, boundingBox |-> NoBox]
  /\ result' = cropToTumorMask(imageNode, maskNode, label, NoBox)
  /\ cachedBB' = result'.boundingBox
  /\ UNCHANGED <<imageNode, maskNode, angleVars, swtVars>>

\* A subsequent call for the same image, mask and label, with the bounding
\* box of the first call passed back in.
CropAgain ==
  /\ call # None /\ call.op = "crop" /\ call.boundingBox = NoBox
  /\ call' = [op |-> "crop", label |-> call.label, boundingBox |-> cachedBB]
  /\ result' = cropToTumorMask(imageNode, maskNode, call.label, cachedBB)
  /\ UNCHANGED <<imageNode, maskNode, cachedBB, angleVars, swtVars>>

Resample(spacing, interpolator, label, padDistance) ==
  /\ call = None
  /\ maskNode # None => label \in LabelsIn(maskNode)
  /\ call' = [op |-> "resample", label |-> label, spacing |-> spacing,
              interpolator |-> interpolator, padDistance |-> padDistance]
  /\ result' = resampleImage(imageNode, maskNode, spacing, interpolator,
                             label, padDistance)
  /\ UNCHANGED <<imageNode, maskNode, cachedBB, angleVars, swtVars>>

NextCrop ==
  \/ \E label \in 1..2 : CropFirst(label)
  \/ CropAgain
  \/ \E spacing \in CropSpacings, label \in 1..2 :
       Resample(spacing, Enum("sitkBSpline"), label, DefaultPadDistance)

NextResample ==
  \E spacing \in TargetSpacings, interpolator \in Interpolators,
     padDistance \in 0..MaxPad :
       Resample(spacing, interpolator, DefaultLabel, padDistance)

SpecCrop == InitCrop /\ [][NextCrop]_vars

SpecResample == InitResample /\ [][NextResample]_vars

\* ------------------------------------------------------------ generateAngles

\* Variant: x starts at 0.
xLoopFromZero(z, y, maxDistance) ==
  [k \in 1..(maxDistance + 1) |-> <<z, y, k - 1>>]

\* for x in xrange(-maxDistance, maxDistance + 1): angles.append((z, y, x))
xLoop(z, y, maxDistance) ==
  [k \in 1..(2 * maxDistance + 1) |-> <<z, y, k - maxDistance - 1>>]

\* for y in xrange(-maxDistance, maxDistance + 1), from y on
RECURSIVE yLoop(_, _, _)
yLoop(z, y, maxDistance) ==
  IF y > maxDistance THEN <<>>
  ELSE <<<<0, z, y>>>> \o xLoop(z, y, maxDistance) \o yLoop(z, y + 1, maxDistance)

\* for z in xrange(1, maxDistance + 1), from z on
RECURSIVE zLoop(_, _)
zLoop(z, maxDistance) ==
  IF z > maxDistance THEN <<>>
  ELSE <<<<0, 0, z>>>> \o yLoop(z, -maxDistance, maxDistance)
       \o zLoop(z + 1, maxDistance)

\* numpy.min(size - numpy.abs(angles), 1) <= 0, for one row
Impossible(size, v) == MinOf({size[a] - Abs(v[a]) : a \in Axes}) <= 0

generateAngles(size, maxDistance) ==
  SelectSeq(zLoop(1, maxDistance), LAMBDA v : ~Impossible(size, v))

InitAngles ==
  /\ angleArgs \in [size : [Axes -> 1..MaxAngleSize],
                    maxDistance : 1..MaxDistance]
  /\ angles = None
  /\ IdleGeom /\ IdleSwt

GenerateAngles ==
  /\ angles = None
  /\ angles' = [rows |-> generateAngles(angleArgs.size, angleArgs.maxDistance)]
  /\ UNCHANGED <<angleArgs, geomVars, swtVars>>

NextAngles == GenerateAngles

SpecAngles == InitAngles /\ [][NextAngles]_vars

\* ------------------------------------------------------------- numpy arrays

\* A sequence given by a rule, with its elements computed and stored (as
\* numpy stores an array) rather than recomputed at each access.
Stored(seq) == seq \o <<>>

\* An array: its shape and its elements in row-major order.
Array(shape, flat) == [shape |-> shape, flat |-> Stored(flat)]

RECURSIVE Product(_)
Product(shape) ==
  IF shape = <<>> THEN 1 ELSE Head(shape) * Product(Tail(shape))

ndim(arr) == Len(arr.shape)

\* Element (a, b, c), 0-based, of a 3D array.
At(arr, a, b, c) ==
  arr.flat[(a * arr.shape[2] + b) * arr.shape[3] + c + 1]

InShape(shape, a, b, c) == a < shape[1] /\ b < shape[2] /\ c < shape[3]

Indices(shape) ==
  (0..(shape[1] - 1)) \X (0..(shape[2] - 1)) \X (0..(shape[3] - 1))

\* numpy.resize(a, new_shape): the flattened elements, repeated as often as
\* needed (or cut), laid out in the new shape.
numpy_resize(arr, new_shape) ==
  LET n == Len(arr.flat)
  IN  Array(new_shape,
            [k \in 1..Product(new_shape) |-> arr.flat[((k - 1) % n) + 1]])

\* ------------------------------------------------- the wavelet library used

\* The decomposition filters of a kernel, scaled to whole numbers (Haar:
\* dec_lo = (1, 1) / sqrt 2, dec_hi = (-1, 1) / sqrt 2).
KnownWavelets == {"haar"}
dec_lo(wavelet) == <<1, 1>>
dec_hi(wavelet) == <<-1, 1>>

RECURSIVE Convolve(_, _, _, _)
Convolve(x, taps, n, k) ==
  IF k > Len(taps) THEN 0
  ELSE taps[k] * x[((n + k - 2) % Len(x)) + 1] + Convolve(x, taps, n, k + 1)

\* pywt.swt(x, wavelet, level=1, start_level=0)[0]: the pair (cA, cD), each
\* as long as x, by periodic filtering without decimation.
swt(x, wavelet) ==
  [cA |-> Stored([n \in 1..Len(x) |-> Convolve(x, dec_lo(wavelet), n, 1)]),
   cD |-> Stored([n \in 1..Len(x) |-> Convolve(x, dec_hi(wavelet), n, 1)])]

\* ------------------------------------------------------ the per-axis passes

\* chain.from_iterable(numpy.transpose(data, (0, 1, 2))): the rows
\* data[a][b], the n-th being that of a * B + b = n - 1.
Rows(arr) ==
  LET C == arr.shape[3]
  IN  Stored([n \in 1..(arr.shape[1] * arr.shape[2]) |->
                Stored([c \in 1..C |-> arr.flat[(n - 1) * C + c]])])

\* chain.from_iterable(numpy.transpose(data, (1, 2, 0))): the lines
\* data[:, b, c], the n-th being that of b * C + c = n - 1.
Columns(arr) ==
  LET A == arr.shape[1]
      BC == arr.shape[2] * arr.shape[3]
  IN  Stored([n \in 1..BC |->
                Stored([a \in 1..A |-> arr.flat[(a - 1) * BC + n]])])

\* numpy.hstack(list).reshape(shape): the coefficient lists one after another.
hstackReshape(list, shape) ==
  LET C == shape[3]
  IN  Array(shape, [k \in 1..Product(shape) |->
                      list[((k - 1) \div C) + 1][((k - 1) % C) + 1]])

\* numpy.asarray([slice.T for slice in numpy.split(numpy.vstack(list), A)]):
\* A blocks of B rows of length C, each block transposed.
vstackSplitTranspose(list, shape) ==
  LET A == shape[1]
      B == shape[2]
      C == shape[3]
  IN  Array(<<A, C, B>>,
            [k \in 1..(A * B * C) |->
               LET a == (k - 1) \div (C * B)
                   c == ((k - 1) \div B) % C
                   b == (k - 1) % B
               IN  list[a * B + b + 1][c + 1]])

\* numpy.dstack(list).reshape(shape): dstack gives shape (1, A, B * C).
dstackReshape(list, shape) ==
  LET BC == shape[2] * shape[3]
  IN  Array(shape, [k \in 1..Product(shape) |->
                      list[((k - 1) % BC) + 1][((k - 1) \div BC) + 1]])

decompose_i(arr, wavelet) ==
  LET lines == Rows(arr)
      cs == Stored([n \in DOMAIN lines |-> swt(lines[n], wavelet)])
  IN  [H |-> hstackReshape([n \in DOMAIN cs |-> cs[n].cD], arr.shape),
       L |-> hstackReshape([n \in DOMAIN cs |-> cs[n].cA], arr.shape)]

decompose_j(arr, wavelet) ==
  LET lines == Rows(arr)
      cs == Stored([n \in DOMAIN lines |-> swt(lines[n], wavelet)])
  IN  [H |-> vstackSplitTranspose([n \in DOMAIN cs |-> cs[n].cD], arr.shape),
       L |-> vstackSplitTranspose([n \in DOMAIN cs |-> cs[n].cA], arr.shape)]

decompose_k(arr, wavelet) ==
  LET lines == Columns(arr)
      cs == Stored([n \in DOMAIN lines |-> swt(lines[n], wavelet)])
  IN  [H |-> dstackReshape([n \in DOMAIN cs |-> cs[n].cD], arr.shape),
       L |-> dstackReshape([n \in DOMAIN cs |-> cs[n].cA], arr.shape)]

\* ---------------------------------------------------------------------- swt3

\* sitk.GetImageFromArray: default spatial information.
DefaultInfo ==
  [spacing |-> <<1, 1, 1>>, origin |-> <<0, 0, 0>>, direction |-> "identity"]

GetImageFromArray(arr) == [array |-> arr, info |-> DefaultInfo]

\* image.CopyInformation(source): refused when the sizes differ.
CopyError == [error |-> "CopyInformation: sizes differ"]

CopyInformation(image, source) ==
  IF image.array.shape = source.array.shape
    THEN [image EXCEPT !.info = source.info]
    ELSE CopyError

\* adjusted_shape: every odd dimension one longer.
adjusted_shape(original_shape) ==
  [d \in DOMAIN original_shape |->
     IF original_shape[d] % 2 # 0 THEN original_shape[d] + 1
                                  ELSE original_shape[d]]

BandNames == {"HHH", "HHL", "HLH", "HLL", "LHH", "LHL", "LLH", "LLL"}
\* Variant: LLL recorded with the details.
decNamesWithLLL == BandNames

\* The keys of dec.
decNames == {"HHH", "HHL", "HLH", "HLL", "LHH", "LHL", "LLH"}

\* Variant: the first loop goes on from H instead of L.
skipBandsFromH(arr, wavelet, locals) ==
  LET first == decompose_i(arr, wavelet)
      second == decompose_j(first.H, wavelet)
      third == decompose_k(second.L, wavelet)
  IN  [locals EXCEPT !["LLH"] = third.H, !["LLL"] = third.L]

\* One pass of the first loop: H, L = i(data); LH, LL = j(L);
\* LLH, LLL = k(LL).  The other three-letter locals keep what they held.
skipBands(arr, wavelet, locals) ==
  LET first == decompose_i(arr, wavelet)
      second == decompose_j(first.L, wavelet)
      third == decompose_k(second.L, wavelet)
  IN  [locals EXCEPT !["LLH"] = third.H, !["LLL"] = third.L]

\* One pass of the second loop: the eight three-letter sub-bands.
levelBands(arr, wavelet) ==
  LET first == decompose_i(arr, wavelet)
      fromH == decompose_j(first.H, wavelet)
      fromL == decompose_j(first.L, wavelet)
      HH == decompose_k(fromH.H, wavelet)
      HL == decompose_k(fromH.L, wavelet)
      LH == decompose_k(fromL.H, wavelet)
      LL == decompose_k(fromL.L, wavelet)
  IN  [name \in BandNames |->
         CASE name = "HHH" -> HH.H [] name = "HHL" -> HH.L
           [] name = "HLH" -> HL.H [] name = "HLL" -> HL.L
           [] name = "LHH" -> LH.H [] name = "LHL" -> LH.L
           [] name = "LLH" -> LL.H [] name = "LLL" -> LL.L]

\* decTemp = numpy.resize(decImage.copy(), original_shape), made an image
\* carrying the input's information.
toImage(arr, image) ==
  CopyInformation(GetImageFromArray(numpy_resize(arr, image.array.shape)),
                  image)

\* The dictionary of one recorded level.
decOf(allBands, image) ==
  [name \in decNames |-> toImage(allBands[name], image)]

NoLocals == [name \in BandNames |-> None]

\* swt3 as a function of its arguments, for a 3D image and a known kernel:
\* the loops of the function run to their end.
RECURSIVE skipLoop(_, _, _, _)
skipLoop(arr, locals, wavelet, n) ==
  IF n = 0 THEN [data |-> arr, locals |-> locals]
  ELSE LET b == skipBands(arr, wavelet, locals)
       IN  skipLoop(b["LLL"], b, wavelet, n - 1)

RECURSIVE recordLoop(_, _, _, _, _)
recordLoop(arr, out, image, wavelet, n) ==
  IF n = 0 THEN [data |-> arr, ret |-> out]
  ELSE LET b == levelBands(arr, wavelet)
       IN  recordLoop(b["LLL"], Append(out, decOf(b, image)), image, wavelet,
                      n - 1)

swt3(image, wavelet, level, start_level) ==
  LET padded == numpy_resize(image.array, adjusted_shape(image.array.shape))
      skipped == skipLoop(padded, NoLocals, wavelet, start_level)
      recorded == recordLoop(skipped.data, <<>>, image, wavelet, level)
  IN  [approximation |-> toImage(recorded.data, image), ret |-> recorded.ret]

\* ----------------------------------------------------------- swt3: the steps

Infos ==
  {DefaultInfo,
   [spacing |-> <<2, 2, 4>>, origin |-> <<5, -3, 7>>, direction |-> "oblique"]}

Fill(pattern, k) == IF pattern = "ramp" THEN k ELSE ((k * k) % 7) - 3

Patterns == {"ramp", "mixed"}

Shapes == [1..3 -> 1..MaxDim] \cup [1..2 -> 1..2]

Wavelets == KnownWavelets \cup {"nosuch"}

InitSwt ==
  /\ \E shape \in Shapes, pattern \in Patterns, info \in Infos :
       inputImage =
         [array |-> Array(shape, [k \in 1..Product(shape) |-> Fill(pattern, k)]),
          info |-> info]
  /\ swtArgs \in [wavelet : Wavelets, level : 1..MaxLevel,
                  start_level : 0..MaxStartLevel]
  /\ pc = "start" /\ data = None /\ i = 0 /\ bands = NoLocals /\ ret = <<>>
  /\ approximation = None
  /\ IdleGeom /\ IdleAngles

\* Lines 249-260: the dimension check, the padding, the kernel lookup.
Enter ==
  /\ pc = "start"
  /\ IF ndim(inputImage.array) # 3
       THEN pc' = "ValueError" /\ data' = inputImage.array
       ELSE /\ data' = numpy_resize(inputImage.array,
                                    adjusted_shape(inputImage.array.shape))
            /\ pc' = IF swtArgs.wavelet \in KnownWavelets THEN "loop"
                                                           ELSE "ValueError"
  /\ UNCHANGED <<inputImage, swtArgs, i, bands, ret, approximation,
                 geomVars, angleVars>>

\* One iteration of `for i in range(0, start_level)`.
SkipLevel ==
  /\ pc = "loop" /\ i < swtArgs.start_level
  /\ bands' = skipBands(data, swtArgs.wavelet, bands)
  /\ data' = bands'["LLL"]
  /\ i' = i + 1
  /\ UNCHANGED <<inputImage, swtArgs, pc, ret, approximation,
                 geomVars, angleVars>>

\* One iteration of `for i in range(start_level, start_level + level)`.
RecordLevel ==
  /\ pc = "loop"
  /\ swtArgs.start_level <= i /\ i < swtArgs.start_level + swtArgs.level
  /\ bands' = levelBands(data, swtArgs.wavelet)
  /\ data' = bands'["LLL"]
  /\ LET dec == decOf(bands', inputImage)
     IN  IF \E name \in decNames : dec[name] = CopyError
           THEN pc' = "RuntimeError" /\ UNCHANGED <<ret, i>>
           ELSE ret' = Append(ret, dec) /\ i' = i + 1 /\ pc' = pc
  /\ UNCHANGED <<inputImage, swtArgs, approximation, geomVars, angleVars>>

\* Lines 299-303: the approximation is cut to the original shape and returned.
Finish ==
  /\ pc = "loop" /\ i = swtArgs.start_level + swtArgs.level
  /\ data' = numpy_resize(data, inputImage.array.shape)
  /\ LET image == CopyInformation(GetImageFromArray(data'), inputImage)
     IN  IF image = CopyError
           THEN pc' = "RuntimeError" /\ UNCHANGED approximation
           ELSE approximation' = image /\ pc' = "done"
  /\ UNCHANGED <<inputImage, swtArgs, i, bands, ret, geomVars, angleVars>>

NextSwt == Enter \/ SkipLevel \/ RecordLevel \/ Finish

SpecSwt == InitSwt /\ [][NextSwt]_vars

\* ------------------------------------------------- claims: generateAngles

InRange(v, d) == \A a \in Axes : -d <= v[a] /\ v[a] <= d
Negated(v) == <<-v[1], -v[2], -v[3]>>
RowSet(arr) == {arr.rows[k] : k \in 1..Len(arr.rows)}
Cube(d) == (-d..d) \X (-d..d) \X (-d..d)

\* C3: with every component of the bounding size above maxDistance d, the
\* angles are non-empty, pairwise distinct, never the zero vector, hold
\* exactly one of v and -v for every non-zero v of [-d, d]^3, and number
\* ((2d+1)^3 - 1) / 2.
AnglesHalfSpace ==
  (angles # None /\ \A a \in Axes : angleArgs.size[a] > angleArgs.maxDistance)
  => LET d == angleArgs.maxDistance
         n == Len(angles.rows)
         R == RowSet(angles)
     IN  /\ n > 0
         /\ Cardinality(R) = n
         /\ <<0, 0, 0>> \notin R
         /\ \A v \in R : InRange(v, d)
         /\ \A v \in Cube(d) \ {<<0, 0, 0>>} : (v \in R) # (Negated(v) \in R)
         /\ 2 * n = (2 * d + 1) * (2 * d + 1) * (2 * d + 1) - 1

\* The docstring's second figure: 62 angles for distance 2.
AnglesWitness ==
  /\ angles # None
  /\ angleArgs.maxDistance = 2
  /\ \A a \in Axes : angleArgs.size[a] > 2
  /\ Len(angles.rows) = 62

\* ------------------------------------------------------- claims: geometry

Cropped == call # None /\ call.op = "crop"
Resampled == call # None /\ call.op = "resample"
Present == imageNode # None /\ maskNode # None

\* The extent of a label's region on one axis, from the mask's voxels.
RegionLower(label, a) == MinOf({v[a] : v \in RegionOf(maskNode, label)})
RegionUpper(label, a) == MaxOf({v[a] : v \in RegionOf(maskNode, label)})

\* C2: after cropToTumorMask, on every axis, lowerMargins = B.lower,
\* upperMargins = S - B.upper - 1, both are non-negative and
\* lowerMargins + (B.upper - B.lower + 1) + upperMargins = S, B being the
\* bounding box of the label; the box is returned, and a box passed back in
\* is returned unchanged.
CropMarginsExact ==
  Cropped =>
    /\ \A a \in Axes :
         LET S == maskNode.size[a]
             lowerB == RegionLower(call.label, a)
             upperB == RegionUpper(call.label, a)
         IN  /\ result.lowerCrop[a] = lowerB
             /\ result.upperCrop[a] = S - upperB - 1
             /\ result.lowerCrop[a] >= 0 /\ result.upperCrop[a] >= 0
             /\ result.lowerCrop[a] + (upperB - lowerB + 1)
                  + result.upperCrop[a] = S
             /\ result.boundingBox[2 * a - 1] = lowerB
             /\ result.boundingBox[2 * a] = upperB
    /\ call.boundingBox # NoBox => result.boundingBox = call.boundingBox

\* A second call, with the cached box, that removes voxels at both sides of
\* one axis and at the upper side only of another.
CropAgainWitness ==
  /\ Cropped /\ call.boundingBox # NoBox
  /\ result.lowerCrop[1] > 0 /\ result.upperCrop[1] > 0
  /\ result.lowerCrop[2] = 0 /\ result.upperCrop[2] > 0

\* C1: with source spacing equal to the target spacing, resampleImage returns
\* the crop of image and mask to the bounding box of the requested label and
\* resamples nothing.
ShortcutCropsRequestedLabel ==
  (Resampled /\ Present /\ imageNode.spacing = call.spacing) =>
    /\ result.kind = "crop"
    /\ \A a \in Axes :
         /\ result.lowerCrop[a] = RegionLower(call.label, a)
         /\ result.upperCrop[a] =
              maskNode.size[a] - RegionUpper(call.label, a) - 1

\* The resample path was taken.
ResampleDone == Resampled /\ result.kind = "resample"

\* The target spacing of one axis after the single-slice adjustment.
TargetOf(a) ==
  IF RegionUpper(call.label, a) = RegionLower(call.label, a)
    THEN imageNode.spacing[a] ELSE call.spacing[a]

\* C4: on every axis 0 <= newLower <= newUpper <= ceil(S * r) - 1, r =
\* oldSpacing / targetSpacing after the single-slice adjustment, so that
\* newSize = newUpper - newLower + 1 is an integer >= 1.  (For an integer u,
\* u <= ceil(x) - 1 says u < x.)
OutputGridInsideSource ==
  ResampleDone =>
    \A a \in Axes :
      /\ 0 <= result.bbNewLBound[a]
      /\ result.bbNewLBound[a] <= result.bbNewUBound[a]
      /\ result.bbNewUBound[a] * TargetOf(a)
           < imageNode.size[a] * imageNode.spacing[a]
      /\ result.size[a] = result.bbNewUBound[a] - result.bbNewLBound[a] + 1
      /\ result.size[a] >= 1

\* An upsampled axis on which the upper bound was clamped to the source's
\* extent, in a call that resampled.
ClampedWitness ==
  /\ ResampleDone
  /\ \E a \in Axes :
       /\ imageNode.spacing[a] > TargetOf(a)
       /\ (result.bbNewUBound[a] + 1) * TargetOf(a)
            >= imageNode.size[a] * imageNode.spacing[a]
       /\ result.size[a] > 1

\* C9: the output grid's extent contains the bounding box's extent on every
\* axis: newLower <= boxLower * r and newUpper + 1 >= (boxLower + boxSize) * r.
GridCoversRegion ==
  ResampleDone =>
    \A a \in Axes :
      /\ result.bbNewLBound[a] * TargetOf(a)
           <= RegionLower(call.label, a) * imageNode.spacing[a]
      /\ (result.bbNewUBound[a] + 1) * TargetOf(a)
           >= (RegionUpper(call.label, a) + 1) * imageNode.spacing[a]

UnknownName ==
  /\ Resampled /\ Present /\ imageNode.spacing # call.spacing
  /\ call.interpolator.isString
  /\ call.interpolator.v \notin SitkInterpolators

ValidSwtInput ==
  /\ inputImage # None
  /\ ndim(inputImage.array) = 3
  /\ swtArgs.wavelet \in KnownWavelets

IsInputShaped(image) ==
  /\ image.array.shape = inputImage.array.shape
  /\ Len(image.array.flat) = Product(inputImage.array.shape)
  /\ image.info = inputImage.info

\* C5: for a 3D volume, swt3 returns one approximation and exactly `level`
\* dictionaries, each with exactly the seven keys HHH ... LLH (never LLL);
\* every returned volume has the input's shape and carries the input's
\* spacing, origin and direction.
SwtShapesAndKeys ==
  /\ ValidSwtInput => pc \in {"start", "loop", "done"}
  /\ pc = "done" =>
       /\ IsInputShaped(approximation)
       /\ Len(ret) = swtArgs.level
       /\ \A n \in 1..Len(ret) :
            /\ DOMAIN ret[n] =
                 {"HHH", "HHL", "HLH", "HLL", "LHH", "LHL", "LLH"}
            /\ \A name \in DOMAIN ret[n] : IsInputShaped(ret[n][name])

\* A finished run on a volume whose three lengths differ, one of them odd,
\* whose information is not the default, with two recorded levels.
SwtShapesWitness ==
  /\ pc = "done"
  /\ inputImage.array.shape = <<2, 4, 3>>
  /\ inputImage.info # DefaultInfo
  /\ swtArgs.level = 2

\* The 1D line of a 3D array through (a, b, c) along axis ax (1, 2 or 3).
LineThrough(arr, ax, a, b, c) ==
  [n \in 1..arr.shape[ax] |->
     At(arr, IF ax = 1 THEN n - 1 ELSE a, IF ax = 2 THEN n - 1 ELSE b,
             IF ax = 3 THEN n - 1 ELSE c)]

\* The line-wise transform along axis ax: shape kept, the coefficient of the
\* line through (a, b, c) at that position on the line put at (a, b, c).
AlongAxis(arr, ax, wavelet, part) ==
  Array(arr.shape,
        [k \in 1..Product(arr.shape) |->
           LET a == (k - 1) \div (arr.shape[2] * arr.shape[3])
               b == ((k - 1) \div arr.shape[3]) % arr.shape[2]
               c == (k - 1) % arr.shape[3]
               pos == IF ax = 1 THEN a ELSE IF ax = 2 THEN b ELSE c
           IN  swt(LineThrough(arr, ax, a, b, c), wavelet)[part][pos + 1]])

IsAlongAxis(pass, arr, ax, wavelet) ==
  /\ pass.H = AlongAxis(arr, ax, wavelet, "cD")
  /\ pass.L = AlongAxis(arr, ax, wavelet, "cA")

AxisAssignments ==
  {p \in [{"i", "j", "k"} -> Axes] : p["i"] # p["j"] /\ p["i"] # p["k"]
                                      /\ p["j"] # p["k"]}

\* C7: the passes i, j and k are the line-wise 1D transforms along three
\* distinct axes, each along its own: same shape as the input, the
\* coefficient of the line through (a, b, c) at (a, b, c).
PassesAlongOwnAxes ==
  pc = "loop" =>
    \E p \in AxisAssignments :
      /\ IsAlongAxis(decompose_i(data, swtArgs.wavelet), data, p["i"],
                     swtArgs.wavelet)
      /\ IsAlongAxis(decompose_j(data, swtArgs.wavelet), data, p["j"],
                     swtArgs.wavelet)
      /\ IsAlongAxis(decompose_k(data, swtArgs.wavelet), data, p["k"],
                     swtArgs.wavelet)

\* The elements of `small` are those of `big` at the same indices.
SamePositions(small, big) ==
  \A v \in Indices(small.shape) :
    /\ InShape(big.shape, v[1], v[2], v[3])
    /\ At(small, v[1], v[2], v[3]) = At(big, v[1], v[2], v[3])

\* C8: the padded volume has the adjusted shape and holds the input's
\* elements at the input's indices; every returned volume holds, at every
\* index of the original shape, the element the padded-shape result holds
\* there.
PadAndCropKeepPositions ==
  /\ (pc = "loop" /\ i = 0) =>
       /\ data.shape = adjusted_shape(inputImage.array.shape)
       /\ SamePositions(inputImage.array, data)
  /\ pc = "done" =>
       /\ SamePositions(approximation.array, bands["LLL"])
       /\ \A name \in decNames :
            SamePositions(ret[Len(ret)][name].array, bands[name])

\* C10: swt3(level = n, start_level = s) returns the approximation of
\* swt3(level = s + n, start_level = 0) and, in order, its last n
\* dictionaries; each level works on the LLL of the level before it and the
\* approximation returned is the LLL of the last level.
StartLevelOnlySkips ==
  /\ (pc = "loop" /\ i > 0) => data = bands["LLL"]
  /\ pc = "done" =>
       LET s == swtArgs.start_level
           n == swtArgs.level
           whole == swt3(inputImage, swtArgs.wavelet, s + n, 0)
       IN  /\ approximation = whole.approximation
           /\ ret = SubSeq(whole.ret, s + 1, s + n)
           /\ approximation = toImage(bands["LLL"], inputImage)

\* A finished run that skipped a level and recorded two.
StartLevelWitness ==
  /\ pc = "done"
  /\ swtArgs.start_level >= 1 /\ swtArgs.level >= 2
  /\ Len(ret) = 2
  /\ inputImage.array.shape = <<2, 3, 1>>

====
